---- MODULE Spec2Model ----
(***************************************************************************)
(* A model of spriter (src/spriter/main.py): the command line run `main`,  *)
(* the per-file sheet build `process_video_file`, and the loop synthesis   *)
(* `create_sprite_gif`.  External collaborators (ffmpeg, ffprobe, Pillow's *)
(* file I/O, the directory listing) are nondeterministic choices over the  *)
(* outcomes they can produce.                                              *)
(***************************************************************************)
EXTENDS Integers, Sequences, FiniteSets, TLC

VARIABLES
    pc,             \* position: "start", "processing", "exited" (main); "gif", "gif_done" and
                    \* "file", "file_done" (a direct call of create_sprite_gif, process_video_file)
    caseSensitive,  \* platform: TRUE for a POSIX path flavour, FALSE for Windows (pathlib glob and file names ignore case)
    PIL_AVAILABLE,  \* main.py:14-18
    listing,        \* the files of the input directory, in directory-listing order
    fs,             \* files written or read by the run: path key -> content
    args,           \* main's locals after the preset has been applied
    video_files,    \* main.py:59
    idx,            \* number of completed process_video_file calls
    calls,          \* external commands issued so far (subprocess.run), in order
    log,            \* console messages so far, in order
    results,        \* return values of the process_video_file / create_sprite_gif calls so far
    exit_code       \* process exit status, -1 while running

vars == <<pc, caseSensitive, PIL_AVAILABLE, listing, fs, args, video_files, idx,
          calls, log, results, exit_code>>

(***************************************************************************)
(* Characters and strings.  A string the code inspects (a suffix, a grid,  *)
(* a size) is a sequence of one-character strings.                         *)
(***************************************************************************)
LowerOf == [c \in {"M","O","V","P","G","T","X","I","F","N"} |->
              CASE c = "M" -> "m" [] c = "O" -> "o" [] c = "V" -> "v"
                [] c = "P" -> "p" [] c = "G" -> "g" [] c = "T" -> "t"
                [] c = "X" -> "x" [] c = "I" -> "i" [] c = "F" -> "f"
                [] c = "N" -> "n"]

UpperOf == [c \in {"m","o","v","p","g","t","x","i","f","n"} |->
              CASE c = "m" -> "M" [] c = "o" -> "O" [] c = "v" -> "V"
                [] c = "p" -> "P" [] c = "g" -> "G" [] c = "t" -> "T"
                [] c = "x" -> "X" [] c = "i" -> "I" [] c = "f" -> "F"
                [] c = "n" -> "N"]

\* str.lower(): letters with a lowercase form are replaced, every other character is kept
Lower(s) == [i \in 1..Len(s) |-> IF s[i] \in DOMAIN LowerOf THEN LowerOf[s[i]] ELSE s[i]]

\* str.upper()
Upper(s) == [i \in 1..Len(s) |-> IF s[i] \in DOMAIN UpperOf THEN UpperOf[s[i]] ELSE s[i]]

DigitOf == [c \in {"0","1","2","3","4","5","6","7","8","9"} |->
              CASE c = "0" -> 0 [] c = "1" -> 1 [] c = "2" -> 2 [] c = "3" -> 3
                [] c = "4" -> 4 [] c = "5" -> 5 [] c = "6" -> 6 [] c = "7" -> 7
                [] c = "8" -> 8 [] c = "9" -> 9]

\* int(s) for a string of decimal digits
RECURSIVE ParseInt(_)
ParseInt(s) == IF Len(s) = 0 THEN 0
               ELSE 10 * ParseInt(SubSeq(s, 1, Len(s) - 1)) + DigitOf[s[Len(s)]]

\* position of the first "x" of s, 0 when there is none
RECURSIVE FindX(_, _)
FindX(s, i) == IF i > Len(s) THEN 0 ELSE IF s[i] = "x" THEN i ELSE FindX(s, i + 1)

\* map(int, s.split('x')) for a string "<digits>x<digits>"
SplitX(s) == LET k == FindX(s, 1)
             IN  <<ParseInt(SubSeq(s, 1, k - 1)), ParseInt(SubSeq(s, k + 1, Len(s)))>>

Min(a, b) == IF a < b THEN a ELSE b

(***************************************************************************)
(* Paths (pathlib.Path): parent directory, stem as the pieces the code     *)
(* formats it from, suffix as characters.                                  *)
(***************************************************************************)
MkPath(parent, stem, suffix) == [parent |-> parent, stem |-> stem, suffix |-> suffix]

NoPath == MkPath("", <<>>, <<>>)

PNG == <<".", "p", "n", "g">>
GIF == <<".", "g", "i", "f">>

\* Path.with_suffix
WithSuffix(p, suffix) == [p EXCEPT !.suffix = suffix]

\* the file a path names: on a platform that ignores case, names that differ in case are one file
FsKey(p) == IF caseSensitive THEN p ELSE [p EXCEPT !.suffix = Lower(p.suffix)]

Exists(f, p) == FsKey(p) \in DOMAIN f

WriteFile(f, p, content) ==
    [k \in DOMAIN f \cup {FsKey(p)} |-> IF k = FsKey(p) THEN content ELSE f[k]]

\* a console message: its kind, the file it names, its numbers, and the exception it shows
MsgErr(kind, file, info, error) ==
    [msg |-> kind, file |-> file, info |-> info, error |-> error]

Msg(kind, file, info) == MsgErr(kind, file, info, "")

(***************************************************************************)
(* Images.  A stored raster is a background colour plus the colours of a   *)
(* finite set of points; a crop and a resize refer to the image they were  *)
(* taken from.  An "RGB" pixel is <<r, g, b>>, an "L" pixel is <<v>>.      *)
(***************************************************************************)
Black == <<0, 0, 0>>
Dim   == <<0, 3, 27>>
White == <<255, 255, 255>>
Palette == {Black, Dim, White}

Raster(mode, w, h, bg, spots) ==
    [kind |-> "image", mode |-> mode, width |-> w, height |-> h, bg |-> bg, spots |-> spots]

\* a raster made of uniform cells, row-major: the first `shown` cells have the
\* colour `ink`, the cells after them are black
Tiles(tile_width, tile_height, cols, rows, shown, ink) ==
    [kind |-> "tiles", tile |-> <<tile_width, tile_height>>, cols |-> cols, rows |-> rows,
     shown |-> shown, ink |-> ink]

Garbage == [kind |-> "garbage"]

Width(img) == CASE img.kind = "image"   -> img.width
                [] img.kind = "tiles"   -> img.tile[1] * img.cols
                [] img.kind = "crop"    -> img.box[3] - img.box[1]
                [] img.kind = "resized" -> img.size[1]

Height(img) == CASE img.kind = "image"   -> img.height
                 [] img.kind = "tiles"   -> img.tile[2] * img.rows
                 [] img.kind = "crop"    -> img.box[4] - img.box[2]
                 [] img.kind = "resized" -> img.size[2]

\* Image.crop((left, top, right, bottom))
Crop(img, left, top, right, bottom) ==
    [kind |-> "crop", of |-> img, box |-> <<left, top, right, bottom>>]

\* Image.resize((w, h), Image.LANCZOS)
Resize(img, w, h) == [kind |-> "resized", of |-> img, size |-> <<w, h>>]

\* Image.convert('RGB') of one pixel
ToRGB(pixel) == IF Len(pixel) = 1 THEN <<pixel[1], pixel[1], pixel[1]>> ELSE pixel

\* the RGB pixel at (x, y), 0 <= x < width, 0 <= y < height; a point a crop takes
\* from outside its source is black; a resized image is read at the nearest source
\* point (exact for the uniform cells resizing is applied to here)
RECURSIVE PixelAt(_, _, _)
PixelAt(img, x, y) ==
    CASE img.kind = "image" ->
            ToRGB(IF <<x, y>> \in DOMAIN img.spots THEN img.spots[<<x, y>>] ELSE img.bg)
      [] img.kind = "tiles" ->
            ToRGB(IF (y \div img.tile[2]) * img.cols + (x \div img.tile[1]) < img.shown
                  THEN img.ink ELSE Black)
      [] img.kind = "crop" ->
            LET sx == img.box[1] + x
                sy == img.box[2] + y
            IN  IF sx < 0 \/ sy < 0 \/ sx >= Width(img.of) \/ sy >= Height(img.of)
                THEN Black
                ELSE PixelAt(img.of, sx, sy)
      [] img.kind = "resized" ->
            PixelAt(img.of, (x * Width(img.of)) \div img.size[1],
                            (y * Height(img.of)) \div img.size[2])

(***************************************************************************)
(* Blank-frame detection, main.py:254-289.                                 *)
(***************************************************************************)
Margin == 10
BlankRatioNum == 6
BlankRatioDen == 10
BrightnessThreshold == 10

\* main.py:258-266
pixels_to_check(frame_width, frame_height) ==
    << <<frame_width \div 2, frame_height \div 2>>,
       <<Min(Margin, frame_width - 1), Min(Margin, frame_height - 1)>>,
       <<frame_width - Min(Margin, frame_width - 1), Min(Margin, frame_height - 1)>>,
       <<Min(Margin, frame_width - 1), frame_height - Min(Margin, frame_height - 1)>>,
       <<frame_width - Min(Margin, frame_width - 1),
         frame_height - Min(Margin, frame_height - 1)>>,
       <<frame_width \div 4, frame_height \div 4>>,
       <<(3 * frame_width) \div 4, (3 * frame_height) \div 4>> >>

\* the points that pass the guard of main.py:273
SampledPoints(frame_width, frame_height) ==
    LET pts == pixels_to_check(frame_width, frame_height)
    IN  {i \in 1..Len(pts) : pts[i][1] < frame_width /\ pts[i][2] < frame_height}

\* Image.getpixel raises IndexError for a point that, after a negative coordinate
\* has wrapped around once, is still outside the image
GetPixelRaises(frame_width, frame_height) ==
    LET pts == pixels_to_check(frame_width, frame_height)
        wrap(v, n) == IF v < 0 THEN v + n ELSE v
    IN  \E i \in SampledPoints(frame_width, frame_height) :
            \/ wrap(pts[i][1], frame_width) < 0
            \/ wrap(pts[i][2], frame_height) < 0

RECURSIVE SumOver(_, _)
SumOver(S, f) == IF S = {} THEN 0
                 ELSE LET i == CHOOSE j \in S : TRUE
                      IN  f[i] + SumOver(S \ {i}, f)

\* main.py:269-280, the two accumulators after the loop over the points;
\* total_brightness is kept as 3 * total_brightness, the sum of all channel values
blank_pixel_count(frame, frame_width, frame_height) ==
    LET pts == pixels_to_check(frame_width, frame_height)
    IN  Cardinality({i \in SampledPoints(frame_width, frame_height) :
                        PixelAt(frame, pts[i][1], pts[i][2]) = <<0, 0, 0>>})

total_brightness3(frame, frame_width, frame_height) ==
    LET pts == pixels_to_check(frame_width, frame_height)
        S   == SampledPoints(frame_width, frame_height)
        sum == [i \in S |-> LET p == PixelAt(frame, pts[i][1], pts[i][2])
                            IN  p[1] + p[2] + p[3]]
    IN  SumOver(S, sum)

\* the divisor of main.py:282-283
Divisor(frame_width, frame_height) == Len(pixels_to_check(frame_width, frame_height))

\* main.py:282-287: blank_percentage >= 0.6 or avg_brightness < 10, in integers
IsBlank(frame, frame_width, frame_height) ==
    LET n == Divisor(frame_width, frame_height)
    IN  \/ BlankRatioDen * blank_pixel_count(frame, frame_width, frame_height)
              >= BlankRatioNum * n
        \/ total_brightness3(frame, frame_width, frame_height)
              < BrightnessThreshold * 3 * n

(***************************************************************************)
(* create_sprite_gif, main.py:211-320.                                     *)
(***************************************************************************)
Cmd(tool, op, input, vf, output) ==
    [tool |-> tool, op |-> op, input |-> input, vf |-> vf, output |-> output]

\* main.py:220-221
ResolutionProbe(input_file) == Cmd("ffprobe", "resolution", input_file, <<>>, NoPath)

\* Image.open: the file must exist and hold an image; an animation opens at its first frame
CanOpen(f, path) == Exists(f, path) /\ f[FsKey(path)].kind \in {"image", "tiles", "gif"}

OpenImage(f, path) ==
    LET c == f[FsKey(path)] IN IF c.kind = "gif" THEN c.frames[1] ELSE c

\* main.py:291-293; original = <<0, 0>> stands for None
Scaled(frame, original) ==
    IF original[1] # 0 /\ original[2] # 0
    THEN Resize(frame, original[1], original[2])
    ELSE frame

\* cells with row and column exchanged
CellTransposed(sprite_sheet, grid_cols, frame_width, frame_height, k) ==
    Crop(sprite_sheet,
         (k \div grid_cols) * frame_width, (k % grid_cols) * frame_height,
         (k \div grid_cols) * frame_width + frame_width,
         (k % grid_cols) * frame_height + frame_height)

\* main.py:250-254: cell k, counted from 0 in row-major order (row k div grid_cols,
\* column k mod grid_cols)
Cell(sprite_sheet, grid_cols, frame_width, frame_height, k) ==
    Crop(sprite_sheet,
         (k % grid_cols) * frame_width, (k \div grid_cols) * frame_height,
         (k % grid_cols) * frame_width + frame_width,
         (k \div grid_cols) * frame_height + frame_height)

\* main.py:287-295: blank[k + 1] being the verdict on cell k, the frames kept and
\* the "Skipping blank frame" messages, both in the order of the cells
KeepFrames(sprite_sheet, grid_cols, frame_width, frame_height, blank, original) ==
    LET cells       == [i \in 1..Len(blank) |-> i - 1]
        isblank(k)  == blank[k + 1]
        notblank(k) == ~blank[k + 1]
        skipped     == SelectSeq(cells, isblank)
        kept        == SelectSeq(cells, notblank)
    IN  [frames |-> [i \in 1..Len(kept) |->
                        Scaled(Cell(sprite_sheet, grid_cols, frame_width, frame_height,
                                    kept[i]), original)],
         msgs   |-> [i \in 1..Len(skipped) |->
                        Msg("SkipBlank", NoPath,
                            <<skipped[i] \div grid_cols, skipped[i] % grid_cols>>)]]

\* main.py:245-295, the loop over the cells
ExtractFrames(sprite_sheet, grid_cols, grid_rows, frame_width, frame_height, original) ==
    KeepFrames(sprite_sheet, grid_cols, frame_width, frame_height,
               [i \in 1..(grid_cols * grid_rows) |->
                   IsBlank(Cell(sprite_sheet, grid_cols, frame_width, frame_height, i - 1),
                           frame_width, frame_height)],
               original)

\* a loop closed with a copy of the last frame instead of the first
LoopFramesLast(frames) ==
    IF Len(frames) > 1 THEN Append(frames, frames[Len(frames)]) ELSE frames

\* a loop closed whenever there is a frame at all
LoopFramesAlways(frames) ==
    IF Len(frames) > 0 THEN Append(frames, frames[1]) ELSE frames

\* main.py:299-300
LoopFrames(frames) == IF Len(frames) > 1 THEN Append(frames, frames[1]) ELSE frames

\* 1000 / fps to the nearest integer (no rate used here lies halfway)
Round1000Over(fps) == (2 * 1000 + fps) \div (2 * fps)

\* main.py:304, int(1000 / fps) for fps > 0
frame_duration(fps) == 1000 \div fps

\* main.py:308-314: what Image.save is handed
Animation(frames, duration) ==
    [kind |-> "gif", frames |-> <<frames[1]>> \o Tail(frames),
     duration |-> duration, loop |-> 0]

\* main.py:297-320: ex being what the loop over the cells left, close the loop and
\* save; env.encode is "ok", "error" (save raises before the file is opened) or
\* "error_partial" (save raises after it has opened and truncated the file)
SaveFrames(f, gif_path, fps, cmds, probed, ex, env) ==
    LET frames == LoopFrames(ex.frames)
        added  == IF Len(ex.frames) > 1
                  THEN <<Msg("AddedFirstFrame", NoPath, <<Len(frames)>>)>>
                  ELSE <<>>
        msgs   == probed \o ex.msgs \o added
        failed(f2) ==
            [ret |-> FALSE,
             msgs |-> msgs \o <<MsgErr("CouldNotCreateGif", NoPath, <<>>, "SaveError")>>,
             cmds |-> cmds, fs |-> f2]
    IN  IF frames = <<>>
        THEN [ret |-> FALSE, msgs |-> msgs, cmds |-> cmds, fs |-> f]
        ELSE CASE env.encode = "ok" ->
                    [ret |-> TRUE, msgs |-> msgs, cmds |-> cmds,
                     fs |-> WriteFile(f, gif_path, Animation(frames, frame_duration(fps)))]
               [] env.encode = "error" -> failed(f)
               [] env.encode = "error_partial" -> failed(WriteFile(f, gif_path, Garbage))

\* env.probe:  the resolution ffprobe reports, <<0, 0>> when the probe fails or finds no stream
\* env.load:   FALSE when reading the sheet fails for a reason outside the program
\* env.encode: the outcome of Image.save
\* Result: the return value, the messages printed, the commands run, the files afterwards.
CreateSpriteGif(f, sprite_path, gif_path, grid_cols, grid_rows, fps, input_file, env) ==
    IF ~PIL_AVAILABLE
    THEN [ret |-> FALSE, msgs |-> <<Msg("PillowMissing", NoPath, <<>>)>>,
          cmds |-> <<>>, fs |-> f]
    ELSE
    LET cmds   == <<ResolutionProbe(input_file)>>
        probed == IF env.probe # <<0, 0>>
                  THEN <<Msg("OriginalResolution", NoPath, env.probe)>> ELSE <<>>
        failed(error) ==
            [ret |-> FALSE,
             msgs |-> probed \o <<MsgErr("CouldNotCreateGif", NoPath, <<>>, error)>>,
             cmds |-> cmds, fs |-> f]
    IN  IF ~(env.load /\ CanOpen(f, sprite_path))
        THEN failed("OpenError")
        ELSE
        LET sprite_sheet == OpenImage(f, sprite_path)
            frame_width  == Width(sprite_sheet) \div grid_cols
            frame_height == Height(sprite_sheet) \div grid_rows
        IN  IF GetPixelRaises(frame_width, frame_height)
            THEN failed("IndexError")
            ELSE SaveFrames(f, gif_path, fps, cmds, probed,
                            ExtractFrames(sprite_sheet, grid_cols, grid_rows,
                                          frame_width, frame_height, env.probe),
                            env)

GifEnvs == [probe : {<<0, 0>>, <<3, 2>>}, load : BOOLEAN,
            encode : {"ok", "error", "error_partial"}]

(***************************************************************************)
(* process_video_file, main.py:79-208.                                     *)
(***************************************************************************)
MOV == <<".", "m", "o", "v">>
MP4 == <<".", "m", "p", "4">>
MPG == <<".", "m", "p", "g">>

\* main.py:83
SupportedSuffixes == {MOV, MP4, MPG}

\* main.py:88-97; output = NoPath stands for None, preset = "" for None
OutputFile(input_file, a) ==
    IF a.output = NoPath
    THEN IF a.preset # ""
         THEN MkPath(input_file.parent,
                     input_file.stem \o <<"_spritesheet_", a.preset>>, PNG)
         ELSE MkPath(input_file.parent,
                     input_file.stem \o <<"_spritesheet_", ToString(a.fps), "fps_">>
                        \o a.size \o <<"_">> \o a.grid, PNG)
    ELSE a.output

\* main.py:157 and main.py:160, the same expression on both branches
FilterExpr(fps, size, grid) ==
    <<"fps=", ToString(fps), ",scale=">> \o size \o <<",tile=">> \o grid

\* main.py:121 and main.py:135
DurationProbe(input_file) == Cmd("ffprobe", "duration", input_file, <<>>, NoPath)
FrameCountProbe(input_file) == Cmd("ffprobe", "nb_frames", input_file, <<>>, NoPath)

\* main.py:162-169
Extraction(input_file, vf, output_file) == Cmd("ffmpeg", "extract", input_file, vf, output_file)

\* main.py:115-158, the pre-check of a --loop run.
\* pe.duration: whole seconds ffprobe reports, -1 when the probe or its parsing fails
\* pe.frames:   the frame count ffprobe prints, 0 when it prints no digits, -1 when the probe fails
LoopPreCheck(input_file, a, pe) ==
    LET duration     == IF pe.duration < 0 THEN 5 ELSE pe.duration
        grid_size    == SplitX(a.grid)
        total_frames == grid_size[1] * grid_size[2]
        expected     == Min(duration * a.fps, pe.frames)
    IN  [cmds |-> <<DurationProbe(input_file), FrameCountProbe(input_file)>>,
         msgs |-> <<Msg("SeamlessLooping", NoPath, <<>>)>>
                  \o <<Msg(IF pe.duration < 0 THEN "FallbackDuration" ELSE "VideoDuration",
                           NoPath, <<duration>>)>>
                  \o (IF pe.frames < 0 THEN <<Msg("FrameCountUnknown", NoPath, <<>>)>>
                      ELSE IF pe.frames > 0
                      THEN <<Msg("ExpectedFrames", NoPath, <<expected, total_frames>>)>>
                           \o (IF expected < total_frames
                               THEN <<Msg("LoopWarning", NoPath, <<expected, total_frames>>)>>
                               ELSE <<>>)
                      ELSE <<>>)
                  \o <<Msg("LoopHandledByGif", NoPath, <<total_frames>>)>>]

\* the sheet ffmpeg tiles: cells of the requested size, the first `bright` of them
\* showing a frame, the cells after the last sampled frame black
FfmpegSheet(size, grid, bright) ==
    LET wh == SplitX(size)
        cr == SplitX(grid)
    IN  Tiles(wh[1], wh[2], cr[1], cr[2], bright, White)

\* main.py:190-203: the sheet is there; g is what create_sprite_gif did, were it called
Created(f2, output_file, gif_path, a, msgs, cmds, g) ==
    IF ~a.create_gif
    THEN [ret |-> TRUE, msgs |-> msgs \o <<Msg("SheetCreated", output_file, <<>>)>>,
          cmds |-> cmds, fs |-> f2]
    ELSE [ret  |-> TRUE,
          msgs |-> msgs \o <<Msg("SheetCreated", output_file, <<>>)>> \o g.msgs
                   \o (IF g.ret THEN <<Msg("GifCreated", gif_path, <<>>)>> ELSE <<>>),
          cmds |-> cmds \o g.cmds,
          fs   |-> g.fs]

\* main.py:180-208: ffmpeg has run and left the files f2
Ran(f2, input_file, output_file, a, msgs, cmds, env) ==
    IF env.ffmpeg = "error"
    THEN [ret |-> FALSE,
          msgs |-> msgs \o <<MsgErr("FfmpegError", NoPath, <<>>, "CalledProcessError")>>,
          cmds |-> cmds, fs |-> f2]
    ELSE IF ~Exists(f2, output_file)
    THEN [ret |-> FALSE, msgs |-> msgs \o <<Msg("CouldNotVerify", NoPath, <<>>)>>,
          cmds |-> cmds, fs |-> f2]
    ELSE Created(f2, output_file, WithSuffix(output_file, GIF), a, msgs, cmds,
                 CreateSpriteGif(f2, output_file, WithSuffix(output_file, GIF),
                                 SplitX(a.grid)[1], SplitX(a.grid)[2], a.fps,
                                 input_file, env.gif))

\* a build that gives up when the pre-check could not count the frames
ConvertBlocked(f, input_file, output_file, a, pre, env) ==
    IF \E i \in 1..Len(pre.msgs) : pre.msgs[i].msg = "FrameCountUnknown"
    THEN [ret |-> FALSE,
          msgs |-> <<Msg("Configuration", output_file, <<a.fps>>)>> \o pre.msgs,
          cmds |-> pre.cmds, fs |-> f]
    ELSE Ran(IF env.ffmpeg = "written"
             THEN WriteFile(f, output_file, FfmpegSheet(a.size, a.grid, env.bright))
             ELSE f,
             input_file, output_file, a,
             <<Msg("Configuration", output_file, <<a.fps>>)>> \o pre.msgs,
             pre.cmds \o <<Extraction(input_file, FilterExpr(a.fps, a.size, a.grid),
                                      output_file)>>,
             env)

\* main.py:88-178: the output path, the configuration shown, the pre-check and the
\* ffmpeg command
Convert(f, input_file, output_file, a, pre, env) ==
    Ran(IF env.ffmpeg = "written"
        THEN WriteFile(f, output_file, FfmpegSheet(a.size, a.grid, env.bright))
        ELSE f,
        input_file, output_file, a,
        <<Msg("Configuration", output_file, <<a.fps>>)>> \o pre.msgs,
        pre.cmds \o <<Extraction(input_file,
                                 IF a.loop THEN FilterExpr(a.fps, a.size, a.grid)
                                 ELSE FilterExpr(a.fps, a.size, a.grid),
                                 output_file)>>,
        env)

\* process_video_file without the check of the extension
ProcessUnchecked(f, input_file, a, env) ==
    Convert(f, input_file, OutputFile(input_file, a), a,
            IF a.loop THEN LoopPreCheck(input_file, a, env.probe)
            ELSE [cmds |-> <<>>, msgs |-> <<>>],
            env)

\* env.probe:  outcome of the two probes of the pre-check
\* env.ffmpeg: "error" (nonzero exit), "nofile" (exit 0, nothing written), "written"
\* env.bright: number of cells of the written sheet that show a frame
\* env.gif:    outcomes inside create_sprite_gif
\* Result: the return value, the messages printed, the commands run, the files afterwards.
Process(f, input_file, a, env) ==
    IF Lower(input_file.suffix) \notin SupportedSuffixes
    THEN [ret |-> FALSE, msgs |-> <<Msg("UnsupportedFormat", input_file, <<>>)>>,
          cmds |-> <<>>, fs |-> f]
    ELSE Convert(f, input_file, OutputFile(input_file, a), a,
                 IF a.loop THEN LoopPreCheck(input_file, a, env.probe)
                 ELSE [cmds |-> <<>>, msgs |-> <<>>],
                 env)

(***************************************************************************)
(* main, main.py:30-76.                                                    *)
(***************************************************************************)
S64x64   == <<"6", "4", "x", "6", "4">>
S32x32   == <<"3", "2", "x", "3", "2">>
S128x128 == <<"1", "2", "8", "x", "1", "2", "8">>
S6x6     == <<"6", "x", "6">>
S4x4     == <<"4", "x", "4">>
S8x8     == <<"8", "x", "8">>
S2x1     == <<"2", "x", "1">>
S3x2     == <<"3", "x", "2">>

\* main.py:37-41
preset_configs ==
    [p \in {"game", "web", "hires"} |->
        CASE p = "game"  -> [fps |-> 10, size |-> S64x64,   grid |-> S6x6]
          [] p = "web"   -> [fps |-> 8,  size |-> S32x32,   grid |-> S4x4]
          [] p = "hires" -> [fps |-> 12, size |-> S128x128, grid |-> S8x8]]

\* a preset that yields to the values given with it
EffectiveGivenWins(preset, given) == given

\* main.py:36-45: the configuration in effect, given = the values of --fps, --size, --grid
Effective(preset, given) == IF preset # "" THEN preset_configs[preset] ELSE given

\* main.py:50
VersionQuery == Cmd("ffmpeg", "version", NoPath, <<>>, NoPath)

\* Path.glob("*" + suffix) over the directory's files, in listing order; the path
\* flavour decides whether case counts
Glob(files, suffix) ==
    LET match(file) == IF caseSensitive THEN file.suffix = suffix
                       ELSE Lower(file.suffix) = Lower(suffix)
    IN  SelectSeq(files, match)

\* main.py:58-62
RECURSIVE Discover(_, _)
Discover(files, video_extensions) ==
    IF video_extensions = <<>> THEN <<>>
    ELSE LET ext == Head(video_extensions)
         IN  Glob(files, ext) \o Glob(files, Upper(ext))
                \o Discover(files, Tail(video_extensions))

video_extensions == <<MOV, MP4, MPG>>


\* main.py:30-69 up to the first process_video_file call: the preset, the check for
\* ffmpeg (available = it can be run), and in directory mode the discovery.
\* files is what the directory holds (for a file argument, that file).
Start(input_path, is_dir, files, output, given, preset, loop, create_gif, available) ==
    LET cfg  == Effective(preset, given)
        said == IF preset # "" THEN <<Msg("UsingPreset", NoPath, <<cfg.fps>>)>> ELSE <<>>
        found == Discover(files, video_extensions)
    IN  /\ args' = [input_path |-> input_path, is_dir |-> is_dir, output |-> output,
                    fps |-> cfg.fps, size |-> cfg.size, grid |-> cfg.grid,
                    preset |-> preset, loop |-> loop, create_gif |-> create_gif,
                    given |-> given]
        /\ listing' = files
        /\ calls' = <<VersionQuery>>
        /\ IF ~available
           THEN /\ log' = said \o <<Msg("FfmpegMissing", NoPath, <<>>)>>
                /\ video_files' = <<>>
                /\ pc' = "exited"
                /\ exit_code' = 1
           ELSE IF is_dir
           THEN IF found = <<>>
                THEN /\ log' = said \o <<Msg("NoVideoFiles", input_path, <<>>)>>
                     /\ video_files' = found
                     /\ pc' = "exited"
                     /\ exit_code' = 1
                ELSE /\ log' = said \o <<Msg("Found", input_path, <<Len(found)>>)>>
                     /\ video_files' = found
                     /\ pc' = "processing"
                     /\ exit_code' = exit_code
           ELSE /\ log' = said
                /\ video_files' = <<>>
                /\ pc' = "processing"
                /\ exit_code' = exit_code
        /\ UNCHANGED <<caseSensitive, PIL_AVAILABLE, fs, idx, results>>

(***************************************************************************)
(* The inputs and the environment's choices.                               *)
(***************************************************************************)
MaxFiles == 2

DirPath == MkPath("", <<"d">>, <<>>)

InDir(stem, suffix) == MkPath("d", <<stem>>, suffix)

FilePool == {InDir("a", MOV), InDir("a", Upper(MOV)), InDir("b", Upper(MOV)),
             InDir("a", MP4), InDir("b", <<".", "M", "p", "4">>), InDir("b", MPG),
             InDir("b", <<".", "t", "x", "t">>)}

\* what a directory can hold: up to MaxFiles files, no two of them the same file
Listings ==
    {l \in UNION {[1..n -> FilePool] : n \in 0..MaxFiles} :
        \A i, j \in 1..Len(l) : i # j => FsKey(l[i]) # FsKey(l[j])}

Outputs == {NoPath, MkPath("", <<"out">>, PNG), MkPath("", <<"out">>, GIF)}

Presets == {"", "game", "web", "hires"}

\* values of --fps, --size, --grid; the first of each is the option's default
Given == [fps : {10, 7}, size : {S64x64, S3x2}, grid : {S6x6, S2x1}]

Defaults == [fps |-> 10, size |-> S64x64, grid |-> S6x6]

\* main.py:30-76 started on a file
MainFile ==
    /\ pc = "start"
    /\ \E file \in {InDir("a", MP4), InDir("b", <<".", "t", "x", "t">>)},
          output \in {NoPath, MkPath("", <<"out">>, PNG)}, given \in Given,
          preset \in Presets, loop \in BOOLEAN, create_gif \in BOOLEAN,
          available \in BOOLEAN :
        Start(file, FALSE, <<file>>, output, given, preset, loop, create_gif, available)

\* main.py:30-76 started on a directory
MainDir ==
    /\ pc = "start"
    /\ \E files \in Listings, output \in {NoPath, MkPath("", <<"out">>, PNG)},
          preset \in {"", "web"}, loop \in BOOLEAN, create_gif \in BOOLEAN,
          available \in BOOLEAN :
        Start(DirPath, TRUE, files, output, Defaults, preset, loop, create_gif, available)

ProbeEnvs == [duration : {-1, 2}, frames : {-1, 0, 3, 100}]

NoProbeEnv == [duration |-> -1, frames |-> -1]

NoGifEnv == [probe |-> <<0, 0>>, load |-> TRUE, encode |-> "ok"]

\* the videos of the directory ffmpeg cannot decode (it exits nonzero), and those
\* without a video frame (it exits 0 and writes nothing)
Undecodable == {InDir("a", MOV)}
Frameless == {InDir("b", MPG)}

\* the choices open to the environment during one process_video_file call.
\* In a run of main on a file they are drawn from small sets; in a run on a
\* directory what ffmpeg does is decided by the file, so that a batch has one
\* history per directory; rich = TRUE draws from the full sets.
Envs(a, rich, input_file) ==
    LET grid_size == SplitX(a.grid)
        capacity  == grid_size[1] * grid_size[2]
        probes    == IF a.loop /\ rich THEN ProbeEnvs ELSE {NoProbeEnv}
        gifs      == IF ~a.create_gif \/ a.is_dir THEN {NoGifEnv}
                     ELSE IF rich THEN GifEnvs
                     ELSE [probe : {<<0, 0>>}, load : {TRUE}, encode : {"ok", "error"}]
        brights   == IF a.create_gif /\ rich THEN {0, 1, capacity} ELSE {capacity}
        failures  == IF ~a.is_dir THEN {"error", "nofile"}
                     ELSE IF input_file \in Undecodable THEN {"error"}
                     ELSE IF input_file \in Frameless THEN {"nofile"}
                     ELSE {}
        successes == IF a.is_dir /\ input_file \in Undecodable \cup Frameless
                     THEN {} ELSE {"written"}
    IN  [probe : probes, ffmpeg : failures, bright : {capacity}, gif : {NoGifEnv}]
        \cup [probe : probes, ffmpeg : successes, bright : brights, gif : gifs]

\* number of process_video_file calls main makes
Total == IF args.is_dir THEN Len(video_files) ELSE 1

\* what a call that returned r leaves behind: the files, the commands it ran, what
\* it printed after `header`, and its return value
Returned(r, header) ==
    /\ fs' = r.fs
    /\ calls' = calls \o r.cmds
    /\ log' = log \o header \o r.msgs
    /\ results' = Append(results, r.ret)

\* main.py:71-73 (one pass of the loop) and main.py:76
ProcessVideoFile ==
    /\ pc = "processing"
    /\ idx < Total
    /\ LET input_file == IF args.is_dir THEN video_files[idx + 1] ELSE args.input_path
       IN  \E env \in Envs(args, FALSE, input_file) :
              Returned(Process(fs, input_file, args, env),
                       IF args.is_dir
                       THEN <<Msg("Processing", input_file, <<idx + 1, Len(video_files)>>)>>
                       ELSE <<>>)
    /\ idx' = idx + 1
    /\ UNCHANGED <<pc, caseSensitive, PIL_AVAILABLE, listing, args, video_files, exit_code>>

\* main returns: the process ends with status 0
Finish ==
    /\ pc = "processing"
    /\ idx = Total
    /\ pc' = "exited"
    /\ exit_code' = 0
    /\ UNCHANGED <<caseSensitive, PIL_AVAILABLE, listing, fs, args, video_files, idx,
                   calls, log, results>>

Init ==
    /\ pc = "start"
    /\ caseSensitive \in BOOLEAN
    /\ PIL_AVAILABLE \in BOOLEAN
    /\ listing = <<>>
    /\ fs = <<>>
    /\ args = <<>>
    /\ video_files = <<>>
    /\ idx = 0
    /\ calls = <<>>
    /\ log = <<>>
    /\ results = <<>>
    /\ exit_code = -1

Next == MainFile \/ MainDir \/ ProcessVideoFile \/ Finish

Spec == Init /\ [][Next]_vars

(***************************************************************************)
(* A direct call of create_sprite_gif on a stored sheet.                   *)
(***************************************************************************)
MaxPixels == 4
MaxGrid == 2

\* frame rates: the presets' (8, 10, 12) and others
FrameRates == {1, 2, 3, 6, 7, 8, 10, 12}

Coords(w, h) == {<<x, y>> : x \in 0..(w - 1), y \in 0..(h - 1)}

\* every black-and-white RGB raster of at most MaxPixels pixels
SmallSheets ==
    UNION {UNION {{Raster("RGB", w, h, Black, spots)
                      : spots \in [Coords(w, h) -> {Black, White}]}
                  : h \in {k \in 1..MaxPixels : w * k <= MaxPixels}}
           : w \in 1..MaxPixels}

\* rasters with dim pixels, one or two cells wide
DimSheets ==
    {Raster("RGB", w, 1, Dim, [p \in {<<0, 0>>} |-> c]) : w \in 1..2, c \in Palette}

\* 12 x 12 rasters, where every point is sampled at its own place; grey-scale ones among them
WideSheets ==
    {Raster("RGB", 12, 12, bg, [p \in {<<6, 6>>, <<10, 10>>, <<2, 2>>} |-> c])
        : bg \in Palette, c \in Palette}
    \cup {Raster("L", 12, 12, <<v>>, [p \in {<<6, 6>>} |-> <<255>>]) : v \in {0, 9, 10}}

GifSheets == SmallSheets \cup DimSheets \cup WideSheets

SheetFile == MkPath("d", <<"sheet">>, PNG)
VideoFile == MkPath("d", <<"clip">>, <<".", "m", "p", "4">>)

InitGif ==
    /\ pc = "gif"
    /\ caseSensitive = TRUE
    /\ PIL_AVAILABLE \in BOOLEAN
    /\ listing = <<>>
    /\ \E sheet \in GifSheets \cup {Garbage} : fs = WriteFile(<<>>, SheetFile, sheet)
    /\ args = <<>>
    /\ video_files = <<>>
    /\ idx = 0
    /\ calls = <<>>
    /\ log = <<>>
    /\ results = <<>>
    /\ exit_code = -1

CallCreateSpriteGif ==
    /\ pc = "gif"
    /\ \E grid_cols \in 1..MaxGrid, grid_rows \in 1..MaxGrid, fps \in FrameRates,
          env \in GifEnvs :
          /\ args' = [sprite_path |-> SheetFile, gif_path |-> WithSuffix(SheetFile, GIF),
                      grid_cols |-> grid_cols, grid_rows |-> grid_rows,
                      fps |-> fps, input_file |-> VideoFile,
                      io_error |-> PIL_AVAILABLE /\ ~env.load]
          /\ Returned(CreateSpriteGif(fs, SheetFile, WithSuffix(SheetFile, GIF),
                                      grid_cols, grid_rows, fps, VideoFile, env),
                      <<>>)
    /\ pc' = "gif_done"
    /\ UNCHANGED <<caseSensitive, PIL_AVAILABLE, listing, video_files, idx, exit_code>>

NextGif == CallCreateSpriteGif

SpecGif == InitGif /\ [][NextGif]_vars

(***************************************************************************)
(* A direct call of process_video_file, with every outcome of the tools.   *)
(***************************************************************************)
FileConfigs == {Defaults, [fps |-> 7, size |-> S3x2, grid |-> S2x1]}

InitFile ==
    /\ pc = "file"
    /\ caseSensitive \in BOOLEAN
    /\ PIL_AVAILABLE \in BOOLEAN
    /\ listing = <<>>
    /\ fs = <<>>
    /\ args = <<>>
    /\ video_files = <<>>
    /\ idx = 0
    /\ calls = <<>>
    /\ log = <<>>
    /\ results = <<>>
    /\ exit_code = -1

\* args also keeps env.bright, the number of cells the video fills
CallProcessVideoFile ==
    /\ pc = "file"
    /\ \E input_file \in {InDir("a", MP4), InDir("b", <<".", "M", "p", "4">>),
                         InDir("b", <<".", "t", "x", "t">>)},
          output \in Outputs, cfg \in FileConfigs, preset \in {"", "web"},
          loop \in BOOLEAN, create_gif \in BOOLEAN :
          LET a == [input_path |-> input_file, is_dir |-> FALSE, output |-> output,
                    fps |-> cfg.fps, size |-> cfg.size, grid |-> cfg.grid,
                    preset |-> preset, loop |-> loop, create_gif |-> create_gif,
                    given |-> cfg]
          IN  \E env \in Envs(a, TRUE, input_file) :
                 /\ args' = a @@ ("bright" :> env.bright)
                 /\ Returned(Process(fs, input_file, a, env), <<>>)
    /\ pc' = "file_done"
    /\ UNCHANGED <<caseSensitive, PIL_AVAILABLE, listing, video_files, idx, exit_code>>

NextFile == CallProcessVideoFile

SpecFile == InitFile /\ [][NextFile]_vars

(***************************************************************************)
(* Properties of create_sprite_gif, stated on the state after a direct     *)
(* call (SpecGif).                                                         *)
(***************************************************************************)
GifDone == pc = "gif_done"

TheSheet == fs[FsKey(SheetFile)]

CellWidth == Width(TheSheet) \div args.grid_cols

CellHeight == Height(TheSheet) \div args.grid_rows

NumCells == args.grid_cols * args.grid_rows

\* cell k, counted from 0 in row-major order
CellAt(k) ==
    Crop(TheSheet, (k % args.grid_cols) * CellWidth, (k \div args.grid_cols) * CellHeight,
         (k % args.grid_cols) * CellWidth + CellWidth,
         (k \div args.grid_cols) * CellHeight + CellHeight)

\* the call read the sheet and classified every cell
Extracted ==
    /\ GifDone
    /\ PIL_AVAILABLE
    /\ ~args.io_error
    /\ TheSheet.kind = "image"
    /\ CellWidth >= 1
    /\ CellHeight >= 1

Has(kind) == \E i \in 1..Len(log) : log[i].msg = kind

Skipped(k) ==
    \E i \in 1..Len(log) :
        log[i] = Msg("SkipBlank", NoPath, <<k \div args.grid_cols, k % args.grid_cols>>)

\* the cells kept, in order
Retained ==
    LET keep(k) == ~IsBlank(CellAt(k), CellWidth, CellHeight)
    IN  SelectSeq([i \in 1..NumCells |-> i - 1], keep)

GifWritten ==
    /\ GifDone
    /\ Exists(fs, args.gif_path)
    /\ fs[FsKey(args.gif_path)].kind = "gif"

Encoded == fs[FsKey(args.gif_path)].frames

Unscaled(frame) == IF frame.kind = "resized" THEN frame.of ELSE frame

\* C1: when N > 1 frames are retained, the encoded sequence has N + 1 frames, its
\* first N frames are the retained cells in order, and its last frame is its first.
C1_LoopClosedByFirstFrame ==
    (GifWritten /\ Len(Retained) > 1) =>
        /\ Len(Encoded) = Len(Retained) + 1
        /\ \A i \in 1..Len(Retained) : Unscaled(Encoded[i]) = CellAt(Retained[i])
        /\ Encoded[Len(Retained) + 1] = Encoded[1]

\* three cells or more, one of them filtered out, and the loop written
C1_Witness ==
    /\ GifWritten
    /\ Len(Retained) > 1
    /\ Len(Retained) < NumCells
    /\ Encoded[1] # Encoded[2]

\* C2: with N <= 1 retained frames nothing is appended; with N = 0 no animation is
\* written, the call returns, and what it prints (every cell skipped, no warning)
\* differs from what a tooling failure prints (a warning).
C2_FewFramesNoLoop ==
    /\ (GifWritten /\ Len(Retained) <= 1) => Len(Encoded) = Len(Retained)
    /\ (Extracted /\ Len(Retained) = 0) =>
            /\ ~Exists(fs, args.gif_path)
            /\ results = <<FALSE>>
            /\ ~Has("CouldNotCreateGif")
            /\ ~Has("PillowMissing")
            /\ \A k \in 0..(NumCells - 1) : Skipped(k)
    /\ (GifDone /\ ~PIL_AVAILABLE) => (Has("PillowMissing") /\ results = <<FALSE>>)
    /\ (GifDone /\ PIL_AVAILABLE /\ (args.io_error \/ TheSheet.kind # "image")) =>
            (Has("CouldNotCreateGif") /\ results = <<FALSE>>)
    /\ (Extracted /\ Len(Retained) >= 1 /\ ~GifWritten) =>
            (Has("CouldNotCreateGif") /\ results = <<FALSE>>)

\* a sheet of several cells, all of them blank
C2_Witness ==
    /\ Extracted
    /\ NumCells > 1
    /\ Len(Retained) = 0
    /\ results = <<FALSE>>

\* a sheet with exactly one usable cell, encoded
C2_WitnessOne ==
    /\ GifWritten
    /\ NumCells > 1
    /\ Len(Retained) = 1

\* C9 as stated: the duration handed to the encoder is round(1000 / frameRate).
C9_DurationRounded ==
    GifWritten => fs[FsKey(args.gif_path)].duration = Round1000Over(args.fps)

\* C9 as amended: the one duration handed to the encoder for all frames is
\* 1000 / frameRate rounded down.
C9_DurationTruncated ==
    GifWritten =>
        LET d == fs[FsKey(args.gif_path)].duration
        IN  /\ d * args.fps <= 1000
            /\ 1000 < (d + 1) * args.fps

\* a loop with the appended duplicate at a rate that does not divide 1000
C9_Witness ==
    /\ GifWritten
    /\ args.fps = 7
    /\ Len(Encoded) >= 3

\* the rule of the specification: fraction and average over the points actually sampled
BlankOverSampled(frame, frame_width, frame_height) ==
    LET n == Cardinality(SampledPoints(frame_width, frame_height))
    IN  \/ BlankRatioDen * blank_pixel_count(frame, frame_width, frame_height)
              >= BlankRatioNum * n
        \/ total_brightness3(frame, frame_width, frame_height)
              < BrightnessThreshold * 3 * n

\* C10: a cell is discarded exactly if, over the points actually sampled, the
\* fraction of pure black points is >= 0.6 or the mean brightness is < 10; a
\* discarded cell is not part of the output.
C10_BlankOverSampledPoints ==
    /\ Extracted =>
          \A k \in 0..(NumCells - 1) :
              Skipped(k) <=> BlankOverSampled(CellAt(k), CellWidth, CellHeight)
    /\ GifWritten =>
          \A i \in 1..Len(Encoded) : \A k \in 0..(NumCells - 1) :
              Unscaled(Encoded[i]) = CellAt(k) => ~Skipped(k)

\* where every point is sampled (cells at least 2 x 2) the code applies that rule
BlankRuleOnFullSamples ==
    (Extracted /\ CellWidth >= 2 /\ CellHeight >= 2) =>
          \A k \in 0..(NumCells - 1) :
              Skipped(k) <=> BlankOverSampled(CellAt(k), CellWidth, CellHeight)


(***************************************************************************)
(* The geometry of the slicing (SpecGif).                                  *)
(***************************************************************************)
\* the call was handed a stored raster
Sliced == GifDone /\ TheSheet.kind = "image"

\* the rectangle of the cell at (row, col): <<left, top, right, bottom>>
Rect(row, col) ==
    <<col * CellWidth, row * CellHeight, (col + 1) * CellWidth, (row + 1) * CellHeight>>

\* the points of a rectangle, right and bottom edges excluded
Points(box) == {<<x, y>> : x \in box[1]..(box[3] - 1), y \in box[2]..(box[4] - 1)}

\* the box the code crops for cell k
BoxOf(k) == Cell(TheSheet, args.grid_cols, CellWidth, CellHeight, k).box

\* positions in the log of the "Skipping blank frame" lines, and the cells they name
SkipLines == SelectSeq(log, LAMBDA m : m.msg = "SkipBlank")

CellOfLine(m) == m.info[1] * args.grid_cols + m.info[2]

\* C11: the cell at (row, col) is [col*cw, (col+1)*cw) x [row*ch, (row+1)*ch) with
\* cw = width div columns and ch = height div rows; the cells have one size, are
\* pairwise disjoint, lie inside the sheet, cover exactly the top-left
\* (columns*cw) x (rows*ch) region, and are visited in row-major order.
C11_SlicingGeometry ==
    /\ Sliced =>
          /\ \A k \in 0..(NumCells - 1) :
                /\ BoxOf(k) = Rect(k \div args.grid_cols, k % args.grid_cols)
                /\ BoxOf(k)[3] - BoxOf(k)[1] = Width(TheSheet) \div args.grid_cols
                /\ BoxOf(k)[4] - BoxOf(k)[2] = Height(TheSheet) \div args.grid_rows
                /\ Points(BoxOf(k)) \subseteq Coords(Width(TheSheet), Height(TheSheet))
          /\ \A j, k \in 0..(NumCells - 1) :
                j # k => Points(BoxOf(j)) \cap Points(BoxOf(k)) = {}
          /\ UNION {Points(BoxOf(k)) : k \in 0..(NumCells - 1)}
                = Coords(args.grid_cols * CellWidth, args.grid_rows * CellHeight)
    /\ Extracted =>
          /\ \A i, j \in 1..Len(SkipLines) :
                i < j => CellOfLine(SkipLines[i]) < CellOfLine(SkipLines[j])
          /\ Len(SkipLines) + Len(Retained) = NumCells
    /\ GifWritten =>
          \A i \in 1..Len(Retained) :
              /\ Unscaled(Encoded[i]).box = BoxOf(Retained[i])
              /\ i < Len(Retained) => Retained[i] < Retained[i + 1]

\* a sheet whose width leaves a remainder, cut into several cells and encoded
C11_Witness ==
    /\ GifWritten
    /\ NumCells > 1
    /\ Width(TheSheet) % args.grid_cols # 0
    /\ Len(Retained) >= 2

(***************************************************************************)
(* Properties of main (Spec).                                              *)
(***************************************************************************)
Started == pc # "start"

Exited == pc = "exited"

Count(seq, x) == Cardinality({i \in 1..Len(seq) : seq[i] = x})

Supported(file) == Lower(file.suffix) \in SupportedSuffixes

\* a run on one file whose extension is not supported
UnsupportedRun == Started /\ ~args.is_dir /\ ~Supported(args.input_path)

\* C3 as stated: the rejection comes before any invocation of the external tool,
\* the availability query included.
C3_RejectedBeforeAnyInvocation ==
    (UnsupportedRun /\ Has("UnsupportedFormat")) => calls = <<>>

\* C3 as amended: in a single-file run on an unsupported extension the only command
\* ever issued is the availability query, which precedes the rejection; no probe
\* and no extraction is issued, and process_video_file returns False.
C3_RejectedAfterQueryOnly ==
    UnsupportedRun =>
        /\ calls = <<VersionQuery>>
        /\ Has("UnsupportedFormat") => results = <<FALSE>>
        /\ (Exited /\ ~Has("FfmpegMissing")) => Has("UnsupportedFormat")

\* the rejection of a run that asked for the pre-check and for the animation
C3_Witness ==
    /\ UnsupportedRun
    /\ Has("UnsupportedFormat")
    /\ args.loop
    /\ args.create_gif

\* the filter expression of each preset, as the specification gives it
PresetFilter ==
    [p \in {"game", "web", "hires"} |->
        CASE p = "game"  -> <<"fps=", "10", ",scale=", "6", "4", "x", "6", "4",
                              ",tile=", "6", "x", "6">>
          [] p = "web"   -> <<"fps=", "8", ",scale=", "3", "2", "x", "3", "2",
                              ",tile=", "4", "x", "4">>
          [] p = "hires" -> <<"fps=", "12", ",scale=", "1", "2", "8", "x", "1", "2", "8",
                              ",tile=", "8", "x", "8">>]

Extractions == {i \in 1..Len(calls) : calls[i].op = "extract"}

\* C4: with a preset given, every extraction is run with the filter of that
\* preset's bundle, whatever --fps, --size and --grid were passed with it.
C4_PresetDecidesFilter ==
    (Started /\ args.preset # "") =>
        \A i \in Extractions : calls[i].vf = PresetFilter[args.preset]

\* an extraction under preset web with all three options given other values
C4_Witness ==
    /\ Started
    /\ args.preset = "web"
    /\ args.given = [fps |-> 7, size |-> S3x2, grid |-> S2x1]
    /\ Extractions # {}

\* a directory run that got past the check for ffmpeg
Scanned == Started /\ args.is_dir /\ ~Has("FfmpegMissing")

\* C5: in directory mode a file is discovered exactly if its extension, compared
\* without regard to case, is .mov, .mp4 or .mpg, and then exactly once.
C5_DiscoveredIffSupportedOnce ==
    Scanned =>
        /\ \A i \in 1..Len(listing) :
              Count(video_files, listing[i]) = IF Supported(listing[i]) THEN 1 ELSE 0
        /\ \A i \in 1..Len(video_files) : Count(listing, video_files[i]) = 1

\* what discovery does where names are matched with regard to case: a file is found
\* once if its extension is all lowercase or all uppercase, and not otherwise
DiscoveryCaseSensitive ==
    (Scanned /\ caseSensitive) =>
        \A i \in 1..Len(listing) :
            Count(video_files, listing[i]) =
                IF listing[i].suffix \in SupportedSuffixes
                   \/ listing[i].suffix \in {Upper(x) : x \in SupportedSuffixes}
                THEN 1 ELSE 0

\* and where they are matched without regard to case: a supported file is found twice
DiscoveryCaseInsensitive ==
    (Scanned /\ ~caseSensitive) =>
        \A i \in 1..Len(listing) :
            Count(video_files, listing[i]) = IF Supported(listing[i]) THEN 2 ELSE 0

\* C6: each fatal condition ends the run with a nonzero status: (a) ffmpeg cannot be
\* run, and then nothing is processed or extracted; (b) a directory without a
\* matching file; (c) a single file with an unsupported extension.
C6_FatalExitsNonzero ==
    Exited =>
        /\ Has("FfmpegMissing") =>
              (exit_code # 0 /\ results = <<>> /\ Extractions = {})
        /\ (Scanned /\ video_files = <<>>) => exit_code # 0
        /\ (UnsupportedRun /\ ~Has("FfmpegMissing")) => exit_code # 0

\* the two conditions the code does treat as fatal
FatalMissingToolOrNoFiles ==
    Exited =>
        /\ Has("FfmpegMissing") =>
              (exit_code = 1 /\ results = <<>> /\ calls = <<VersionQuery>>)
        /\ (Scanned /\ video_files = <<>>) => (exit_code = 1 /\ results = <<>>)

\* the status after an unsupported single file
UnsupportedFileExitsZero ==
    (Exited /\ UnsupportedRun /\ ~Has("FfmpegMissing")) => exit_code = 0

\* position in the log of the header of the i-th attempt of a directory run
HeaderPos(i) ==
    CHOOSE j \in 1..Len(log) :
        log[j] = Msg("Processing", video_files[i], <<i, Len(video_files)>>)

Failures == {"UnsupportedFormat", "FfmpegError", "CouldNotVerify"}

\* the i-th attempt printed a failure between its header and the next one
FailureReported(i) ==
    \E j \in 1..Len(log) :
        /\ log[j].msg \in Failures
        /\ j > HeaderPos(i)
        /\ i < Len(video_files) => j < HeaderPos(i + 1)

Attempts(file) ==
    Cardinality({j \in 1..Len(log) : log[j].msg = "Processing" /\ log[j].file = file})

\* a directory run that went through its list
BatchDone == Exited /\ Scanned /\ exit_code = 0

\* C8: in directory mode every discovered file is attempted exactly once whatever
\* happened to the files before it, and the failure of a file is reported for it.
C8_EveryFileAttemptedOnce ==
    BatchDone =>
        /\ \A i \in 1..Len(video_files) : Attempts(video_files[i]) = 1
        /\ Len(results) = Cardinality({video_files[i] : i \in 1..Len(video_files)})
        /\ \A i \in 1..Len(results) : ~results[i] => FailureReported(i)

\* the batch goes through every entry of its list, failures or not
EveryEntryAttempted ==
    BatchDone =>
        /\ Len(results) = Len(video_files)
        /\ \A i \in 1..Len(video_files) :
              /\ \E j \in 1..Len(log) :
                    log[j] = Msg("Processing", video_files[i], <<i, Len(video_files)>>)
              /\ ~results[i] => FailureReported(i)

\* a batch whose first file fails and whose second is converted
FailureThenSuccess ==
    /\ BatchDone
    /\ caseSensitive
    /\ results = <<FALSE, TRUE>>

(***************************************************************************)
(* The order of a directory run (Spec).                                    *)
(***************************************************************************)
\* place of a file's extension in the declared order .mov, .mp4, .mpg
ExtRank(file) ==
    CHOOSE r \in 1..Len(video_extensions) : video_extensions[r] = Lower(file.suffix)

LowerExt(file) == file.suffix = Lower(file.suffix)

UpperExt(file) == file.suffix = Upper(file.suffix)

\* the inputs of the extraction commands issued so far, in order
Extracting == [i \in 1..Len(SelectSeq(calls, LAMBDA c : c.op = "extract")) |->
                  SelectSeq(calls, LAMBDA c : c.op = "extract")[i].input]

\* the headers printed so far, in order
Headers == SelectSeq(log, LAMBDA m : m.msg = "Processing")

\* the files are taken one at a time in the order of the list: the i-th header and
\* the i-th extraction are for the i-th entry, and every later command of an
\* attempt follows that attempt's extraction and precedes the next one
OneAtATime ==
    /\ Len(Headers) = idx
    /\ \A i \in 1..idx :
          Headers[i] = Msg("Processing", video_files[i], <<i, Len(video_files)>>)
    /\ Extracting = SubSeq(video_files, 1, idx)
    /\ \A p \in 1..Len(calls) :
          calls[p].op = "resolution" =>
              \E q \in 1..(p - 1) :
                  /\ calls[q].op = "extract"
                  /\ calls[q].input = calls[p].input
                  /\ \A t \in (q + 1)..(p - 1) : calls[t].op # "extract"

\* C12: a directory's files are processed one at a time, all .mov before all .mp4
\* before all .mpg, and within an extension every file with a lowercase extension
\* before every file with an uppercase extension.
C12_ProcessingOrder ==
    Scanned =>
        /\ OneAtATime
        /\ \A i, j \in 1..Len(video_files) :
              i < j =>
                  /\ ExtRank(video_files[i]) <= ExtRank(video_files[j])
                  /\ (ExtRank(video_files[i]) = ExtRank(video_files[j])
                        /\ UpperExt(video_files[i])) => ~LowerExt(video_files[j])

\* where names are matched with regard to case the order is the stated one
OrderCaseSensitive == caseSensitive => C12_ProcessingOrder

\* on either platform the list is grouped by extension and taken one entry at a time
GroupedByExtension ==
    Scanned =>
        /\ OneAtATime
        /\ \A i, j \in 1..Len(video_files) :
              i < j => ExtRank(video_files[i]) <= ExtRank(video_files[j])

\* a finished batch of a lowercase and an uppercase file listed uppercase first
LowerBeforeUpper ==
    /\ BatchDone
    /\ caseSensitive
    /\ listing = <<InDir("b", Upper(MOV)), InDir("a", MOV)>>
    /\ video_files = <<InDir("a", MOV), InDir("b", Upper(MOV))>>

(***************************************************************************)
(* The sheets of a directory run (Spec).                                   *)
(***************************************************************************)
\* C14: in one directory run no two input files are converted to the same sheet
\* path, with --output given or with the path derived from the input's stem.
C14_DistinctSheetPaths ==
    Scanned =>
        \A i, j \in Extractions :
            calls[i].input # calls[j].input =>
                FsKey(calls[i].output) # FsKey(calls[j].output)

\* paths derived from distinct stems are distinct
DistinctStemsDistinctSheets ==
    (Scanned /\ args.output = NoPath) =>
        \A i, j \in Extractions :
            calls[i].input.stem # calls[j].input.stem =>
                FsKey(calls[i].output) # FsKey(calls[j].output)

\* a sheet written for one file and then written again for another
SheetOverwritten ==
    /\ BatchDone
    /\ caseSensitive
    /\ args.output = NoPath
    /\ video_files = <<InDir("a", Upper(MOV)), InDir("a", MP4)>>
    /\ results = <<TRUE, TRUE>>
    /\ Cardinality(DOMAIN fs) = 1

(***************************************************************************)
(* Properties of process_video_file, stated on the state after a direct    *)
(* call (SpecFile).                                                        *)
(***************************************************************************)
FileDone == pc = "file_done"

SheetPath == OutputFile(args.input_path, args)

\* ffmpeg succeeded and the sheet was found afterwards
SheetBuilt == FileDone /\ Has("SheetCreated")

\* C7: once the extraction has succeeded and the sheet exists, process_video_file
\* returns True and the sheet stays as ffmpeg wrote it, whatever create_sprite_gif
\* does.
C7_SheetKeptWhateverGif ==
    SheetBuilt =>
        /\ results = <<TRUE>>
        /\ Exists(fs, SheetPath)
        /\ fs[FsKey(SheetPath)] = FfmpegSheet(args.size, args.grid, args.bright)

\* the return value does not depend on create_sprite_gif
SheetBuiltReturnsTrue == SheetBuilt => results = <<TRUE>>

\* the sheet stays unless the animation goes to the sheet's own path
SheetKeptUnlessSamePath ==
    (SheetBuilt /\ FsKey(WithSuffix(SheetPath, GIF)) # FsKey(SheetPath)) =>
        /\ Exists(fs, SheetPath)
        /\ fs[FsKey(SheetPath)] = FfmpegSheet(args.size, args.grid, args.bright)

\* a failed save that leaves the sheet intact
GifFailedSheetKept ==
    /\ SheetBuilt
    /\ Has("CouldNotCreateGif")
    /\ fs[FsKey(SheetPath)] = FfmpegSheet(args.size, args.grid, args.bright)

\* the filter expression fps=<rate>,scale=<size>,tile=<grid> of the call's arguments
PlainFilter == <<"fps=", ToString(args.fps), ",scale=">> \o args.size
                  \o <<",tile=">> \o args.grid

\* a direct call with the loop flag on a supported file
LoopCall == FileDone /\ args.loop /\ Supported(args.input_path)

WarnedAndBuilt ==
    /\ LoopCall
    /\ Has("LoopWarning")
    /\ SheetBuilt

\* the video reported no frame count in digits and the sheet was built
ZeroFramesAndBuilt ==
    /\ LoopCall
    /\ ~Has("FrameCountUnknown")
    /\ ~Has("ExpectedFrames")
    /\ SheetBuilt

====
